---- MODULE Spec2Model ----
(***************************************************************************)
(* A model of src/src/worker.js: an OpenAI-compatible chat-completions     *)
(* shim in front of the Workers AI binding env.AI.run.                     *)
(*                                                                         *)
(* Texts are sequences of UTF-16 code units, one unit per element, as      *)
(* JavaScript strings are.  "HI" and "LO" stand for the high and the low   *)
(* half of a surrogate pair, "CJK" for a unit in the range U+4E00 to       *)
(* U+9FA5, and every other element is the character it shows.              *)
(* JSON values are records [type, val]; a JavaScript object is a record    *)
(* whose domain is the set of its own fields.                              *)
(***************************************************************************)
EXTENDS Integers, Sequences, FiniteSets, TLC

VARIABLES
    env,        \* the environment binding: [VALID_API_KEYS]
    globals,    \* the module-scope objects: [CONFIG, MODEL_MAP]
    pc,         \* pc[r]: where the handling of request slot r stands
    request,    \* request[r]: the inbound Request (method, path, headers, body)
    body,       \* body[r]: the value request.json() resolved to
    aiRequest,  \* aiRequest[r]: the request built by buildAIRequest
    calls,      \* calls[r]: the env.AI.run invocations made so far, in order
    results,    \* results[r]: how each finished invocation ended, in order
    content,    \* content[r]: the text extractContent returned
    meta,       \* meta[r]: completionId and timestamp
    idx,        \* idx[r]: the loop variable i of the stream's start()
    queue,      \* queue[r]: the frames enqueued on the stream controller
    closed,     \* closed[r]: controller.close() has been called
    response    \* response[r]: the Response fetch returned

vars == <<env, globals, pc, request, body, aiRequest, calls, results, content, meta,
          idx, queue, closed, response>>

----------------------------------------------------------------------------
(* Bounds of the model.                                                    *)

\* the number of request slots
MaxReqs == 2
\* the longest text given to the stream emitter on its own
MaxLen == 205

Reqs == 1..MaxReqs

----------------------------------------------------------------------------
(* Texts.                                                                  *)

Min(a, b) == IF a < b THEN a ELSE b

\* s.startsWith(p)
StartsWith(s, p) == Len(p) <= Len(s) /\ SubSeq(s, 1, Len(p)) = p

\* s.indexOf(p), 1-based; 0 when p does not occur in s
IndexOf(s, p) ==
    LET hits == {k \in 1..(Len(s) - Len(p) + 1) : SubSeq(s, k, k + Len(p) - 1) = p}
    IN  IF hits = {} THEN 0 ELSE CHOOSE k \in hits : \A j \in hits : k <= j

\* s.includes(p)
Includes(s, p) == IndexOf(s, p) # 0

\* s.split(p) for a non-empty p: the pieces of s between the occurrences of
\* p found from left to right
RECURSIVE Split(_, _)
Split(s, p) ==
    LET k == IndexOf(s, p)
    IN  IF k = 0 THEN <<s>>
        ELSE <<SubSeq(s, 1, k - 1)>> \o Split(SubSeq(s, k + Len(p), Len(s)), p)

\* a.pop() of a non-empty array: its last element
Pop(a) == a[Len(a)]

\* texts.join(sep)
RECURSIVE Join(_, _)
Join(texts, sep) ==
    IF texts = <<>> THEN <<>>
    ELSE IF Len(texts) = 1 THEN texts[1]
    ELSE texts[1] \o sep \o Join(Tail(texts), sep)

\* the concatenation of a sequence of sequences
RECURSIVE Flatten(_)
Flatten(ss) == IF ss = <<>> THEN <<>> ELSE Head(ss) \o Flatten(Tail(ss))

\* s.slice(from, to) with 0 <= from <= to, in 0-based JavaScript indices
Slice(s, from, to) == SubSeq(s, from + 1, Min(to, Len(s)))

Cue == <<"A", "s", "s", "i", "s", "t", "a", "n", "t", ":", " ">>
Newline == <<"\n">>

----------------------------------------------------------------------------
(* JSON values.                                                            *)

JStr(s)  == [type |-> "string", val |-> s]
JArr(a)  == [type |-> "array", val |-> a]
JObj(o)  == [type |-> "object", val |-> o]
\* a number is kept as its JSON text
JNum(n)  == [type |-> "number", val |-> n]
JBool(b) == [type |-> "boolean", val |-> b]
JNull    == [type |-> "null"]
Undefined == [type |-> "undefined"]

\* v.k throws a TypeError when v is null or undefined
Nullish(v) == v.type \in {"null", "undefined"}

\* v.k for a v that is not nullish: an own field of an object, else undefined
Get(v, k) ==
    IF v.type = "object" /\ k \in DOMAIN v.val THEN v.val[k] ELSE Undefined

\* a[0] of an array (undefined when the array is empty or a is no array)
First(a) ==
    IF a.type = "array" /\ a.val # <<>> THEN a.val[1] ELSE Undefined

\* JavaScript truthiness
Truthy(v) ==
    CASE v.type = "string"  -> v.val # <<>>
      [] v.type = "number"  -> v.val # <<"0">>
      [] v.type = "boolean" -> v.val
      [] v.type \in {"null", "undefined"} -> FALSE
      [] OTHER -> TRUE

\* a || b
Or(a, b) == IF Truthy(a) THEN a ELSE b

\* a ?? b
Coalesce(a, b) == IF Nullish(a) THEN b ELSE a

\* The fields an object of the model can have, in the order JSON.stringify
\* writes them (objects are taken to be built in this order), with their text.
KeyOrder == <<
    [k |-> "role",           t |-> <<"r", "o", "l", "e">>],
    [k |-> "content",        t |-> <<"c", "o", "n", "t", "e", "n", "t">>],
    [k |-> "response",       t |-> <<"r", "e", "s", "p", "o", "n", "s", "e">>],
    [k |-> "generated_text", t |-> <<"g", "e", "n", "e", "r", "a", "t", "e", "d", "_", "t", "e", "x", "t">>],
    [k |-> "choices",        t |-> <<"c", "h", "o", "i", "c", "e", "s">>],
    [k |-> "message",        t |-> <<"m", "e", "s", "s", "a", "g", "e">>],
    [k |-> "output",         t |-> <<"o", "u", "t", "p", "u", "t">>],
    [k |-> "type",           t |-> <<"t", "y", "p", "e">>],
    [k |-> "text",           t |-> <<"t", "e", "x", "t">>] >>

\* one code unit of a string as JSON.stringify writes it: quote, backslash
\* and newline are escaped, a surrogate half without its partner is written
\* as a \uXXXX escape, everything else is written as it is
EscapeUnit(s, k) ==
    CASE s[k] = "\"" -> <<"\\", "\"">>
      [] s[k] = "\\" -> <<"\\", "\\">>
      [] s[k] = "\n" -> <<"\\", "n">>
      [] s[k] = "HI" /\ ~(k < Len(s) /\ s[k + 1] = "LO") -> <<"\\", "u", "d", "8", "x", "x">>
      [] s[k] = "LO" /\ ~(k > 1 /\ s[k - 1] = "HI") -> <<"\\", "u", "d", "c", "x", "x">>
      [] OTHER -> <<s[k]>>

Quote(s) == <<"\"">> \o Flatten([k \in 1..Len(s) |-> EscapeUnit(s, k)]) \o <<"\"">>

\* JSON.stringify(v) for a v that is not undefined
RECURSIVE JsonStringify(_)
JsonStringify(v) ==
    CASE v.type = "string"  -> Quote(v.val)
      [] v.type = "number"  -> v.val
      [] v.type = "boolean" -> IF v.val THEN <<"t", "r", "u", "e">>
                                        ELSE <<"f", "a", "l", "s", "e">>
      [] v.type = "array"   ->
            <<"[">> \o
            Join([k \in 1..Len(v.val) |->
                    IF v.val[k].type = "undefined" THEN <<"n", "u", "l", "l">>
                    ELSE JsonStringify(v.val[k])], <<",">>)
            \o <<"]">>
      [] v.type = "object"  ->
            LET present == SelectSeq(KeyOrder,
                               LAMBDA e : e.k \in DOMAIN v.val
                                          /\ v.val[e.k].type # "undefined")
            IN  <<"{">> \o
                Join([k \in 1..Len(present) |->
                        Quote(present[k].t) \o <<":">>
                        \o JsonStringify(v.val[present[k].k])], <<",">>)
                \o <<"}">>
      [] OTHER -> <<"n", "u", "l", "l">>

----------------------------------------------------------------------------
(* Configuration constants and the model table (worker.js:1-18).           *)

MAX_REQUEST_SIZE == 1048576
STREAM_CHUNK_SIZE == 100
DEFAULT_TEMPERATURE == JNum(<<"0", ".", "7">>)
DEFAULT_TOP_P == JNum(<<"0", ".", "9">>)
DEFAULT_MAX_TOKENS == JNum(<<"4", "0", "9", "6">>)

DeepseekR1 == <<"d", "e", "e", "p", "s", "e", "e", "k", "-", "r", "1">>
GptOss120b == <<"g", "p", "t", "-", "o", "s", "s", "-", "1", "2", "0", "b">>
GptOss20b == <<"g", "p", "t", "-", "o", "s", "s", "-", "2", "0", "b">>
Llama4Scout == <<"l", "l", "a", "m", "a", "-", "4", "-", "s", "c", "o", "u", "t">>
Qwen25Coder == <<"q", "w", "e", "n", "2", ".", "5", "-", "c", "o", "d", "e", "r">>
Gemma3 == <<"g", "e", "m", "m", "a", "-", "3">>

\* the own properties of MODEL_MAP, in the order the literal lists them:
\* the object as the evaluation of the module builds it
MODEL_MAP == <<
    [k |-> DeepseekR1,
     v |-> <<"@", "c", "f", "/", "d", "e", "e", "p", "s", "e", "e", "k", "-", "a", "i", "/", "d", "e", "e", "p", "s", "e", "e", "k", "-", "r", "1", "-", "d", "i", "s", "t", "i", "l", "l", "-", "q", "w", "e", "n", "-", "3", "2", "b">>],
    [k |-> GptOss120b,
     v |-> <<"@", "c", "f", "/", "o", "p", "e", "n", "a", "i", "/", "g", "p", "t", "-", "o", "s", "s", "-", "1", "2", "0", "b">>],
    [k |-> GptOss20b,
     v |-> <<"@", "c", "f", "/", "o", "p", "e", "n", "a", "i", "/", "g", "p", "t", "-", "o", "s", "s", "-", "2", "0", "b">>],
    [k |-> Llama4Scout,
     v |-> <<"@", "c", "f", "/", "m", "e", "t", "a", "/", "l", "l", "a", "m", "a", "-", "4", "-", "s", "c", "o", "u", "t", "-", "1", "7", "b", "-", "1", "6", "e", "-", "i", "n", "s", "t", "r", "u", "c", "t">>],
    [k |-> Qwen25Coder,
     v |-> <<"@", "c", "f", "/", "q", "w", "e", "n", "/", "q", "w", "e", "n", "2", ".", "5", "-", "c", "o", "d", "e", "r", "-", "3", "2", "b", "-", "i", "n", "s", "t", "r", "u", "c", "t">>],
    [k |-> Gemma3,
     v |-> <<"@", "c", "f", "/", "g", "o", "o", "g", "l", "e", "/", "g", "e", "m", "m", "a", "-", "3", "-", "1", "2", "b", "-", "i", "t">>] >>

\* the objects CONFIG and MODEL_MAP as the evaluation of the module builds
\* them (lines 2-18); they are not frozen, and the handlers read them through
\* the module scope
Globals ==
    [CONFIG |-> [MAX_REQUEST_SIZE    |-> MAX_REQUEST_SIZE,
                 STREAM_CHUNK_SIZE   |-> STREAM_CHUNK_SIZE,
                 DEFAULT_TEMPERATURE |-> DEFAULT_TEMPERATURE,
                 DEFAULT_TOP_P       |-> DEFAULT_TOP_P,
                 DEFAULT_MAX_TOKENS  |-> DEFAULT_MAX_TOKENS],
     MODEL_MAP |-> MODEL_MAP]

\* Object.keys(MODEL_MAP)
ModelKeys == {globals.MODEL_MAP[k].k : k \in 1..Len(globals.MODEL_MAP)}

\* MODEL_MAP is an object literal, so besides its own properties it has the
\* ones it inherits from Object.prototype; these are the ones the model uses
ObjectPrototypeKeys == {
    <<"t", "o", "S", "t", "r", "i", "n", "g">>,
    <<"c", "o", "n", "s", "t", "r", "u", "c", "t", "o", "r">> }

\* MODEL_MAP[model] for a text model: the own property, else the inherited
\* one (a function, not a text), else undefined
Lookup(model) ==
    IF model \in ModelKeys
    THEN JStr((CHOOSE e \in {globals.MODEL_MAP[k] : k \in 1..Len(globals.MODEL_MAP)} :
                  e.k = model).v)
    ELSE IF model \in ObjectPrototypeKeys THEN [type |-> "function"]
    ELSE Undefined

ResponsesPrefix ==
    <<"@", "c", "f", "/", "o", "p", "e", "n", "a", "i", "/", "g", "p", "t", "-", "o", "s", "s">>

\* cfModel.startsWith('@cf/openai/gpt-oss')
UsesResponsesAPI(cfModel) == StartsWith(cfModel, ResponsesPrefix)

----------------------------------------------------------------------------
(* Errors and responses (worker.js:28-57).                                 *)

APIError(message, statusCode, code) ==
    [name |-> "APIError", message |-> message, statusCode |-> statusCode,
     code |-> code]

\* what a failed property access or call throws
TypeError == [name |-> "TypeError", message |-> <<"TypeError">>]

\* what a rejected env.AI.run or request.json() throws
OtherError(message) == [name |-> "Error", message |-> <<message>>]

NoResponse == [status |-> 0, kind |-> "none"]

createResponse(data, status) ==
    [status |-> status, kind |-> "json", body |-> data]

\* an error body that lacks the type field
createErrorResponseNoType(error) ==
    createResponse(
        [error |-> [message |-> error.message, code |-> error.code]],
        error.statusCode)

\* error.statusCode || 500, error.code || 'server_error', error.code ||
\* 'internal_error': an APIError always carries a status and a code
createErrorResponse(error) ==
    createResponse(
        [error |-> [message |-> error.message,
                    type    |-> error.code,
                    code    |-> error.code]],
        error.statusCode)

\* the catch block of fetch
Caught(error) ==
    IF error.name = "APIError" THEN createErrorResponse(error)
    ELSE createErrorResponse(
             APIError(<<"Internal server error">>, 500, "internal_error"))

----------------------------------------------------------------------------
(* estimateTokens (worker.js:60-65).                                       *)

CeilDiv(a, b) == (a + b - 1) \div b

\* the estimate with the one divisor 4 for every text
estimateTokensOneDivisor(text) ==
    IF text = <<>> THEN 0 ELSE CeilDiv(Len(text), 4)

\* Math.ceil(text.length / 1.8) is ceil(5 * length / 9): the quotient of the
\* doubles rounds to the exact integer whenever length is a multiple of 9
estimateTokens(text) ==
    IF text = <<>> THEN 0
    ELSE IF \E k \in 1..Len(text) : text[k] = "CJK"
         THEN CeilDiv(5 * Len(text), 9)
         ELSE CeilDiv(Len(text), 4)

----------------------------------------------------------------------------
(* validateAuth (worker.js:68-83).                                         *)

Bearer == <<"B", "e", "a", "r", "e", "r", " ">>

\* request.headers.get(name): null when the header is absent
Header(req, name) == IF name \in DOMAIN req.headers THEN JStr(req.headers[name])
                     ELSE JNull

\* the key is looked up only when a key list is configured
validateAuthOpenWhenUnset(req, e) ==
    LET authHeader == Header(req, "Authorization")
    IN  IF ~Truthy(authHeader) \/ ~StartsWith(authHeader.val, Bearer)
        THEN [ok |-> FALSE,
              error |-> APIError(<<"API key required">>, 401, "invalid_api_key")]
        ELSE
          LET apiKey == SubSeq(authHeader.val, Len(Bearer) + 1, Len(authHeader.val))
              validApiKeys == IF Truthy(e.VALID_API_KEYS)
                              THEN Split(e.VALID_API_KEYS.val, <<",">>)
                              ELSE <<>>
          IN  IF Len(validApiKeys) > 0
                 /\ ~(\E k \in 1..Len(validApiKeys) : validApiKeys[k] = apiKey)
              THEN [ok |-> FALSE,
                    error |-> APIError(<<"Invalid API key">>, 401, "invalid_api_key")]
              ELSE [ok |-> TRUE, apiKey |-> apiKey]

\* [ok |-> TRUE, apiKey] or [ok |-> FALSE, error]
validateAuth(req, e) ==
    LET authHeader == Header(req, "Authorization")
    IN  IF ~Truthy(authHeader) \/ ~StartsWith(authHeader.val, Bearer)
        THEN [ok |-> FALSE,
              error |-> APIError(<<"API key required">>, 401, "invalid_api_key")]
        ELSE
          LET apiKey == SubSeq(authHeader.val, Len(Bearer) + 1, Len(authHeader.val))
              validApiKeys == IF Truthy(e.VALID_API_KEYS)
                              THEN Split(e.VALID_API_KEYS.val, <<",">>)
                              ELSE <<>>
          IN  IF Len(validApiKeys) = 0
                 \/ ~(\E k \in 1..Len(validApiKeys) : validApiKeys[k] = apiKey)
              THEN [ok |-> FALSE,
                    error |-> APIError(<<"Invalid API key">>, 401, "invalid_api_key")]
              ELSE [ok |-> TRUE, apiKey |-> apiKey]

----------------------------------------------------------------------------
(* buildAIRequest (worker.js:86-117).                                      *)

RoleSystem == <<"s", "y", "s", "t", "e", "m">>
RoleUser == <<"u", "s", "e", "r">>
RoleAssistant == <<"a", "s", "s", "i", "s", "t", "a", "n", "t">>
DefaultInstructions ==
    <<"Y", "o", "u", " ", "a", "r", "e", " ", "a", " ", "h", "e", "l", "p", "f", "u", "l", " ", "a", "s", "s", "i", "s", "t", "a", "n", "t", ".">>

HasRole(m, role) == Get(m, "role") = JStr(role)

\* an array element as Array.prototype.join writes it: a text as it is,
\* undefined and null as the empty text
JoinText(v) == IF v.type = "string" THEN v.val ELSE <<>>

\* body.messages.find(m => m.role === 'system')?.content
SystemContent(messages) ==
    LET sys == SelectSeq(messages, LAMBDA m : HasRole(m, RoleSystem))
    IN  IF sys = <<>> THEN Undefined ELSE Get(sys[1], "content")

\* the contents of all the messages, with no filter on the role
UserInputEveryRole(messages) ==
    Join([k \in 1..Len(messages) |-> JoinText(Get(messages[k], "content"))], Newline)

\* body.messages.filter(m => m.role === 'user').map(m => m.content).join("\n")
UserInput(messages) ==
    LET users == SelectSeq(messages, LAMBDA m : HasRole(m, RoleUser))
    IN  Join([k \in 1..Len(users) |-> JoinText(Get(users[k], "content"))], Newline)

\* buildAIRequest(body, cfModel), for a body whose messages are a non-empty
\* array of objects
buildAIRequest(b, cfModel) ==
    LET messages == Get(b, "messages").val
    IN  IF UsesResponsesAPI(cfModel)
        THEN JObj([
            input        |-> JStr(UserInput(messages)),
            instructions |-> Or(SystemContent(messages), JStr(DefaultInstructions)),
            temperature  |-> Coalesce(Get(b, "temperature"), globals.CONFIG.DEFAULT_TEMPERATURE),
            top_p        |-> Coalesce(Get(b, "top_p"), globals.CONFIG.DEFAULT_TOP_P),
            max_tokens   |-> Coalesce(Get(b, "max_tokens"), JNum(<<"2", "0", "4", "8">>)),
            reasoning    |-> Coalesce(Get(b, "reasoning"),
                                JObj([effort |-> JStr(<<"m", "e", "d", "i", "u", "m">>)]))])
        ELSE JObj([
            messages     |-> JArr([k \in 1..Len(messages) |->
                                JObj([role    |-> Get(messages[k], "role"),
                                      content |-> Or(Get(messages[k], "content"), JStr(<<>>))])]),
            temperature  |-> Coalesce(Get(b, "temperature"), globals.CONFIG.DEFAULT_TEMPERATURE),
            top_p        |-> Coalesce(Get(b, "top_p"), globals.CONFIG.DEFAULT_TOP_P),
            max_tokens   |-> Coalesce(Get(b, "max_tokens"), globals.CONFIG.DEFAULT_MAX_TOKENS)])

----------------------------------------------------------------------------
(* The fallback request of callAI (worker.js:128-140).                     *)

\* roleMap[m.role] in a template literal
RoleLabel(role) ==
    CASE role = JStr(RoleSystem)    -> <<"S", "y", "s", "t", "e", "m">>
      [] role = JStr(RoleUser)      -> <<"U", "s", "e", "r">>
      [] role = JStr(RoleAssistant) -> <<"A", "s", "s", "i", "s", "t", "a", "n", "t">>
      [] OTHER -> <<"u", "n", "d", "e", "f", "i", "n", "e", "d">>

\* ${v} in a template literal, for a text, undefined or null
Interpolate(v) ==
    CASE v.type = "string" -> v.val
      [] v.type = "null"   -> <<"n", "u", "l", "l">>
      [] OTHER -> <<"u", "n", "d", "e", "f", "i", "n", "e", "d">>

FallbackPrompt(messages) ==
    Join([k \in 1..Len(messages) |->
            RoleLabel(Get(messages[k], "role")) \o <<":", " ">>
            \o Interpolate(Get(messages[k], "content"))],
         <<"\n", "\n">>)
    \o <<"\n", "\n">> \o Cue

\* the fallback request with the numeric fields read from the body
FallbackRequestFromBody(b, aiReq) ==
    JObj([prompt      |-> JStr(FallbackPrompt(Get(b, "messages").val)),
          temperature |-> Get(b, "temperature"),
          top_p       |-> Get(b, "top_p"),
          max_tokens  |-> Get(b, "max_tokens")])

FallbackRequest(b, aiReq) ==
    JObj([prompt      |-> JStr(FallbackPrompt(Get(b, "messages").val)),
          temperature |-> Get(aiReq, "temperature"),
          top_p       |-> Get(aiReq, "top_p"),
          max_tokens  |-> Get(aiReq, "max_tokens")])

----------------------------------------------------------------------------
(* extractContent (worker.js:144-171).                                     *)
(* The result is [threw |-> FALSE, text] or [threw |-> TRUE] when a         *)
(* TypeError leaves the function.                                          *)

OutputText == <<"o", "u", "t", "p", "u", "t", "_", "t", "e", "x", "t">>

Threw == [threw |-> TRUE]
Returned(text) == [threw |-> FALSE, text |-> text]

\* msg.content.filter(c => c.type === "output_text").map(c => c.text) throws
\* when msg is nullish, when msg.content is no array, or when an entry of
\* msg.content is nullish
ItemThrows(msg) ==
    \/ Nullish(msg)
    \/ Get(msg, "content").type # "array"
    \/ \E k \in 1..Len(Get(msg, "content").val) : Nullish(Get(msg, "content").val[k])

ItemTexts(msg) ==
    LET kept == SelectSeq(Get(msg, "content").val,
                          LAMBDA c : Get(c, "type") = JStr(OutputText))
    IN  [k \in 1..Len(kept) |-> JoinText(Get(kept[k], "text"))]

\* the structured branch, lines 146-153
ExtractOutput(output) ==
    IF \E k \in 1..Len(output) : ItemThrows(output[k]) THEN Threw
    ELSE Returned(Join(Flatten([k \in 1..Len(output) |-> ItemTexts(output[k])]),
                       Newline))

\* response.choices?.[0]?.message?.content
ChoiceContent(resp) ==
    LET choices == Get(resp, "choices")
        first   == IF Nullish(choices) THEN Undefined
                   ELSE IF choices.type = "string" /\ choices.val # <<>>
                        THEN JStr(<<choices.val[1]>>)
                        ELSE First(choices)
        message == IF Nullish(first) THEN Undefined ELSE Get(first, "message")
    IN  IF Nullish(message) THEN Undefined ELSE Get(message, "content")

\* the probe with generated_text ahead of response
ProbeGeneratedTextFirst(resp) ==
    Or(Get(resp, "generated_text"),
       Or(Get(resp, "response"),
          Or(ChoiceContent(resp),
             IF resp.type = "string" THEN resp ELSE JNull)))

\* the probe of lines 157-160
Probe(resp) ==
    Or(Get(resp, "response"),
       Or(Get(resp, "generated_text"),
          Or(ChoiceContent(resp),
             IF resp.type = "string" THEN resp ELSE JNull)))

\* lines 168-170
StripCue(text) ==
    IF Includes(text, Cue) THEN Pop(Split(text, Cue)) ELSE text

\* the legacy branch, lines 156-170; a truthy content that is no text has
\* no includes method (the model has no response whose content is an array)
ExtractLegacy(resp) ==
    LET c == Probe(resp)
    IN  IF ~Truthy(c) THEN Returned(JsonStringify(resp))
        ELSE IF c.type # "string" THEN Threw
        ELSE Returned(StripCue(c.val))

\* the structured branch returns the empty text when there is no output
\* sequence
extractContentEmptyWithoutOutput(resp, useResponsesAPI) ==
    IF Nullish(resp) THEN Threw
    ELSE IF useResponsesAPI
         THEN IF Truthy(Get(resp, "output")) /\ Get(resp, "output").type = "array"
              THEN ExtractOutput(Get(resp, "output").val)
              ELSE Returned(<<>>)
         ELSE ExtractLegacy(resp)

extractContent(resp, useResponsesAPI) ==
    IF Nullish(resp) THEN Threw
    ELSE IF useResponsesAPI /\ Truthy(Get(resp, "output"))
            /\ Get(resp, "output").type = "array"
         THEN ExtractOutput(Get(resp, "output").val)
         ELSE ExtractLegacy(resp)

----------------------------------------------------------------------------
(* createStreamResponse (worker.js:174-222).                               *)
(* A frame is the object given to JSON.stringify, or the [DONE] literal;   *)
(* finish_reason is "null" for null, and the empty delta {} is the record  *)
(* with no field.                                                          *)

ChunkFrame(completionId, timestamp, model, delta, finish_reason) ==
    [kind |-> "json",
     payload |-> [id |-> completionId, object |-> "chat.completion.chunk",
                  created |-> timestamp, model |-> model,
                  choices |-> <<[index |-> 0, delta |-> delta,
                                 finish_reason |-> finish_reason]>>]]

RoleOpenFrame(m, model) ==
    ChunkFrame(m.completionId, m.timestamp, model,
               [role |-> "assistant", content |-> <<>>], "null")

\* a slice that is one unit short
ChunkShort(text, i) == Slice(text, i, i + globals.CONFIG.STREAM_CHUNK_SIZE - 1)

\* content.slice(i, i + CONFIG.STREAM_CHUNK_SIZE)
Chunk(text, i) == Slice(text, i, i + globals.CONFIG.STREAM_CHUNK_SIZE)

ContentFrame(m, model, text, i) ==
    ChunkFrame(m.completionId, m.timestamp, model, [content |-> Chunk(text, i)], "null")

TerminalFrame(m, model) ==
    ChunkFrame(m.completionId, m.timestamp, model, <<>>, "stop")

DoneFrame == [kind |-> "done"]

\* the loop condition i < content.length
LoopContinues(text, i) == i < Len(text)

\* the Response of lines 214-221
StreamResponse == [status |-> 200, kind |-> "stream"]

\* body.model || 'deepseek-r1'
ModelOf(b) == Or(Get(b, "model"), JStr(DeepseekR1))

\* the stream is opened while the backend call is still pending
StreamOpenEarly(r) ==
    /\ pc[r] \in {"open", "run1"}
    /\ queue' = [queue EXCEPT ![r] = Append(@, RoleOpenFrame(meta[r], ModelOf(body[r]).val))]
    /\ idx' = [idx EXCEPT ![r] = 0]
    /\ pc' = [pc EXCEPT ![r] = "loop"]
    /\ UNCHANGED <<env, globals, request, body, aiRequest, calls, results, content, meta,
                   closed, response>>

\* line 180: the role-open frame is enqueued, and the loop starts at i = 0
StreamOpen(r) ==
    /\ pc[r] = "open"
    /\ queue' = [queue EXCEPT ![r] = Append(@, RoleOpenFrame(meta[r], ModelOf(body[r]).val))]
    /\ idx' = [idx EXCEPT ![r] = 0]
    /\ pc' = [pc EXCEPT ![r] = "loop"]
    /\ UNCHANGED <<env, globals, request, body, aiRequest, calls, results, content, meta,
                   closed, response>>

\* one iteration of the loop of lines 189-198
StreamChunk(r) ==
    /\ pc[r] = "loop"
    /\ LoopContinues(content[r], idx[r])
    /\ queue' = [queue EXCEPT ![r] =
                    Append(@, ContentFrame(meta[r], ModelOf(body[r]).val, content[r], idx[r]))]
    /\ idx' = [idx EXCEPT ![r] = @ + globals.CONFIG.STREAM_CHUNK_SIZE]
    /\ UNCHANGED <<env, globals, pc, request, body, aiRequest, calls, results, content,
                   meta, closed, response>>

\* the loop ends and line 201 enqueues the terminal frame
StreamTerminal(r) ==
    /\ pc[r] = "loop"
    /\ ~LoopContinues(content[r], idx[r])
    /\ queue' = [queue EXCEPT ![r] = Append(@, TerminalFrame(meta[r], ModelOf(body[r]).val))]
    /\ pc' = [pc EXCEPT ![r] = "sentinel"]
    /\ UNCHANGED <<env, globals, request, body, aiRequest, calls, results, content, meta,
                   idx, closed, response>>

\* the sentinel is left out
StreamDoneSkipped(r) ==
    /\ pc[r] = "sentinel"
    /\ pc' = [pc EXCEPT ![r] = "close"]
    /\ UNCHANGED <<env, globals, request, body, aiRequest, calls, results, content, meta,
                   idx, queue, closed, response>>

\* line 209
StreamDone(r) ==
    /\ pc[r] = "sentinel"
    /\ queue' = [queue EXCEPT ![r] = Append(@, DoneFrame)]
    /\ pc' = [pc EXCEPT ![r] = "close"]
    /\ UNCHANGED <<env, globals, request, body, aiRequest, calls, results, content, meta,
                   idx, closed, response>>

\* line 210 closes the controller; start() returns, and lines 214-221 and
\* 254 return the Response
StreamClose(r) ==
    /\ pc[r] = "close"
    /\ closed' = [closed EXCEPT ![r] = TRUE]
    /\ response' = [response EXCEPT ![r] = StreamResponse]
    /\ pc' = [pc EXCEPT ![r] = "done"]
    /\ UNCHANGED <<env, globals, request, body, aiRequest, calls, results, content, meta,
                   idx, queue>>

----------------------------------------------------------------------------
(* The inputs: environments, requests, backend responses.                  *)

\* env.VALID_API_KEYS: unset, empty, or a comma-separated list
EnvValues == {
    [VALID_API_KEYS |-> Undefined],
    [VALID_API_KEYS |-> JStr(<<>>)],
    [VALID_API_KEYS |-> JStr(<<"k", "1", ",", "k", "2">>)] }

Absent == Undefined

\* an object with the fields of o that are not absent
ObjectOf(o) == JObj([k \in {f \in DOMAIN o : o[f] # Absent} |-> o[k]])

AuthorizationValues == {
    Absent,
    JStr(<<"B", "a", "s", "i", "c", " ", "k", "1">>),
    JStr(<<"B", "e", "a", "r", "e", "r", " ", "k", "1">>),
    JStr(<<"B", "e", "a", "r", "e", "r", " ", "z", "z">>) }

ContentLengthValues == {
    Absent,
    JStr(<<"2", "0">>),
    JStr(<<"1", "0", "4", "8", "5", "7", "6">>),
    JStr(<<"1", "0", "4", "8", "5", "7", "7">>) }

HeadersOf(authorization, contentLength) ==
    LET h == [Authorization |-> authorization] @@ ("content-length" :> contentLength)
    IN  [k \in {f \in DOMAIN h : h[f] # Absent} |-> h[k].val]

Message(role, text) == JObj([role |-> JStr(role), content |-> JStr(text)])

MessagesValues == {
    Absent,
    JStr(<<"h", "i">>),
    JArr(<<>>),
    JArr(<<Message(RoleUser, <<"h", "i">>)>>),
    JArr(<<Message(RoleSystem, <<"b", "e", " ", "k", "i", "n", "d">>),
           Message(RoleUser, <<"q", "1">>),
           Message(RoleAssistant, <<"a", "1">>),
           Message(RoleUser, <<"q", "2">>)>>) }

NotAModel == <<"n", "o", "t", "-", "a", "-", "m", "o", "d", "e", "l">>

ModelValues == {
    Absent,
    JStr(<<>>),
    JStr(DeepseekR1),
    JStr(GptOss120b),
    JStr(NotAModel),
    JStr(<<"t", "o", "S", "t", "r", "i", "n", "g">>) }

StreamValues == {Absent, JBool(FALSE), JBool(TRUE)}

\* what request.json() gives: a rejection for a body that is no JSON, else
\* the parsed value
BodyValues ==
    {[type |-> "malformed"], JNull}
    \cup {ObjectOf([messages |-> ms, model |-> md, stream |-> st]) :
            ms \in MessagesValues, md \in ModelValues, st \in StreamValues}

Requests ==
    [method : {"OPTIONS", "GET", "POST"},
     path : {"/health", "/v1/models", "/v1/chat/completions", "/v1/embeddings"},
     headers : {HeadersOf(a, c) : a \in AuthorizationValues, c \in ContentLengthValues},
     body : BodyValues]

\* a text of 250 units whose units 100 and 101 (indices 99 and 100) are a
\* surrogate pair
LongText ==
    [k \in 1..250 |-> IF k = 100 THEN "HI" ELSE IF k = 101 THEN "LO" ELSE "a"]

OutputItem(type, text) == JObj([type |-> JStr(type), text |-> JStr(text)])

\* what env.AI.run can resolve to
BackendResponses == {
    JObj([response |-> JStr(<<"o", "k">>)]),
    JObj([response |-> JStr(LongText)]),
    JObj([response |-> JStr(<<>>)]),
    JObj([response |-> JStr(<<"U", "s", "e", "r", ":", " ", "h", "i", "\n", "\n">>
                            \o Cue \o <<"y", "o">>)]),
    JObj([generated_text |-> JStr(<<"g", "t">>)]),
    JObj([choices |-> JArr(<<JObj([message |->
                                JObj([content |-> JStr(<<"c", "c">>)])])>>)]),
    JStr(<<"p", "l", "a", "i", "n">>),
    JObj([output |-> JArr(<<
        JObj([content |-> JArr(<<OutputItem(OutputText, <<"A">>)>>)]),
        JObj([content |-> JArr(<<
            OutputItem(<<"r", "e", "a", "s", "o", "n", "i", "n", "g", "_", "t", "e", "x", "t">>, <<"r">>),
            OutputItem(OutputText, <<"B">>)>>)])>>)]),
    JObj([output |-> JArr(<<JObj([type |-> JStr(<<"r", "e", "a", "s", "o", "n", "i", "n", "g">>)])>>)]) }

\* crypto.randomUUID() and Date.now()
Metas == [completionId : {"chatcmpl-1", "chatcmpl-2"}, timestamp : {1700000000, 1700000001}]

----------------------------------------------------------------------------
(* handleChatCompletion, callAI and fetch (worker.js:119-142, 225-347).    *)

\* parseInt(text): the number its leading digits write, -1 for NaN
DigitValue(c) ==
    CASE c = "0" -> 0 [] c = "1" -> 1 [] c = "2" -> 2 [] c = "3" -> 3
      [] c = "4" -> 4 [] c = "5" -> 5 [] c = "6" -> 6 [] c = "7" -> 7
      [] c = "8" -> 8 [] c = "9" -> 9 [] OTHER -> -1

RECURSIVE ParseDigits(_, _)
ParseDigits(text, acc) ==
    IF text = <<>> \/ DigitValue(Head(text)) < 0 THEN acc
    ELSE ParseDigits(Tail(text), 10 * acc + DigitValue(Head(text)))

ParseInt(text) ==
    IF text = <<>> \/ DigitValue(Head(text)) < 0 THEN -1
    ELSE ParseDigits(text, 0)

\* contentLength && parseInt(contentLength) > CONFIG.MAX_REQUEST_SIZE
TooLarge(req) ==
    LET contentLength == Header(req, "content-length")
    IN  Truthy(contentLength) /\ ParseInt(contentLength.val) > globals.CONFIG.MAX_REQUEST_SIZE

\* the check without its length test
MessagesInvalidAllowsEmpty(b) ==
    \/ ~Truthy(Get(b, "messages"))
    \/ Get(b, "messages").type # "array"

\* the check of line 229
MessagesInvalid(b) ==
    \/ ~Truthy(Get(b, "messages"))
    \/ Get(b, "messages").type # "array"
    \/ Len(Get(b, "messages").val) = 0

\* MODEL_MAP[model] of line 235, for a model that is a text
CfModel(b) == IF ModelOf(b).type = "string" THEN Lookup(ModelOf(b).val)
              ELSE Undefined

\* the completion object of lines 258-277
Completion(m, b, text) ==
    LET promptTokens == estimateTokens(JsonStringify(Get(b, "messages")))
        completionTokens == estimateTokens(text)
    IN  [id |-> m.completionId, object |-> "chat.completion",
         created |-> m.timestamp, model |-> ModelOf(b).val,
         choices |-> <<[index |-> 0,
                        message |-> [role |-> "assistant", content |-> text],
                        finish_reason |-> "stop"]>>,
         usage |-> [prompt_tokens |-> promptTokens,
                    completion_tokens |-> completionTokens,
                    total_tokens |-> promptTokens + completionTokens]]

handleHealth == createResponse([status |-> "healthy", models |-> ModelKeys], 200)

handleModels ==
    createResponse([object |-> "list",
                    data |-> [k \in 1..Len(globals.MODEL_MAP) |->
                                [id |-> globals.MODEL_MAP[k].k, object |-> "model",
                                 owned_by |-> "cloudflare"]]], 200)

\* an APIError built with the defaults of its constructor (line 29)
NotFoundDefaults == APIError(<<"Not found">>, 400, "invalid_request_error")

\* the error of line 334
NotFound == APIError(<<"Not found">>, 404, "not_found")

\* the response is kept in one place for all the requests in flight
RespondShared(r, resp) ==
    /\ response' = [s \in Reqs |-> resp]
    /\ pc' = [pc EXCEPT ![r] = "done"]

\* the request ends: fetch returns resp
Respond(r, resp) ==
    /\ response' = [response EXCEPT ![r] = resp]
    /\ pc' = [pc EXCEPT ![r] = "done"]

\* fetch on request req in slot r, from its entry to its first suspension,
\* the await of request.json() in handleChatCompletion (lines 301-334, 226)
FetchRequest(r, req) ==
    /\ request' = [request EXCEPT ![r] = req]
    /\ IF req.method = "OPTIONS"
       THEN Respond(r, [status |-> 204, kind |-> "empty"])
       ELSE IF req.path = "/health" /\ req.method = "GET"
       THEN Respond(r, handleHealth)
       ELSE IF req.path = "/v1/models" /\ req.method = "GET"
       THEN Respond(r, handleModels)
       ELSE IF ~validateAuth(req, env).ok
       THEN Respond(r, Caught(validateAuth(req, env).error))
       ELSE IF req.path = "/v1/chat/completions" /\ req.method = "POST"
       THEN IF TooLarge(req)
            THEN Respond(r, Caught(APIError(<<"Request body too large">>, 413,
                                            "payload_too_large")))
            ELSE /\ pc' = [pc EXCEPT ![r] = "json"]
                 /\ UNCHANGED response
       ELSE Respond(r, Caught(NotFound))
    /\ UNCHANGED <<env, globals, body, aiRequest, calls, results, content, meta, idx,
                   queue, closed>>

\* a request arrives in slot r
Fetch(r) == pc[r] = "idle" /\ \E req \in Requests : FetchRequest(r, req)

\* request.json() settles and handleChatCompletion runs to its next
\* suspension, the await of env.AI.run in callAI (lines 226-245, 121)
HandleBody(r) ==
    /\ pc[r] = "json"
    /\ LET b == request[r].body
           cfModel == CfModel(b)
       IN  IF b.type = "malformed"
           THEN /\ Respond(r, Caught(OtherError("SyntaxError")))
                /\ UNCHANGED <<body, aiRequest, calls>>
           ELSE IF Nullish(b)
           THEN /\ Respond(r, Caught(TypeError))
                /\ body' = [body EXCEPT ![r] = b]
                /\ UNCHANGED <<aiRequest, calls>>
           ELSE IF MessagesInvalid(b)
           THEN /\ Respond(r, Caught(APIError(<<"Messages must be a non-empty array">>,
                                              400, "invalid_parameter")))
                /\ body' = [body EXCEPT ![r] = b]
                /\ UNCHANGED <<aiRequest, calls>>
           ELSE IF ~Truthy(cfModel)
           THEN /\ Respond(r, Caught(APIError(<<"Model '", ModelOf(b), "' not supported">>,
                                              400, "model_not_found")))
                /\ body' = [body EXCEPT ![r] = b]
                /\ UNCHANGED <<aiRequest, calls>>
           ELSE IF cfModel.type # "string"
                   \/ \E k \in 1..Len(Get(b, "messages").val) :
                         Nullish(Get(b, "messages").val[k])
           THEN /\ Respond(r, Caught(TypeError))
                /\ body' = [body EXCEPT ![r] = b]
                /\ UNCHANGED <<aiRequest, calls>>
           ELSE /\ body' = [body EXCEPT ![r] = b]
                /\ aiRequest' = [aiRequest EXCEPT ![r] = buildAIRequest(b, cfModel.val)]
                /\ calls' = [calls EXCEPT ![r] =
                                Append(@, [model |-> cfModel.val,
                                           request |-> buildAIRequest(b, cfModel.val)])]
                /\ pc' = [pc EXCEPT ![r] = "run1"]
                /\ UNCHANGED response
    /\ UNCHANGED <<env, globals, request, results, content, meta, idx, queue, closed>>

\* a stream flag that is present, whatever its value
WantsStreamIfPresent(b) == Get(b, "stream").type # "undefined"

\* if (body.stream)
WantsStream(b) == Truthy(Get(b, "stream"))

\* lines 246-277 of handleChatCompletion, once callAI has returned resp with
\* the completion id and the timestamp m
Finish(r, resp, m) ==
    LET useResponsesAPI == UsesResponsesAPI(CfModel(body[r]).val)
        extracted == extractContent(resp, useResponsesAPI)
    IN  IF extracted.threw
        THEN /\ Respond(r, Caught(TypeError))
             /\ UNCHANGED <<content, meta>>
        ELSE /\ content' = [content EXCEPT ![r] = extracted.text]
             /\ meta' = [meta EXCEPT ![r] = m]
             /\ IF WantsStream(body[r])
                THEN /\ pc' = [pc EXCEPT ![r] = "open"]
                     /\ UNCHANGED response
                ELSE Respond(r, createResponse(Completion(m, body[r], extracted.text), 200))

\* callAI returns resp in slot r, and the handler goes on with it
Returns(r, resp, m) ==
    /\ results' = [results EXCEPT ![r] = Append(@, [ok |-> TRUE, value |-> resp])]
    /\ Finish(r, resp, m)
    /\ UNCHANGED <<env, globals, request, body, aiRequest, calls, idx, queue, closed>>

\* the call of line 121 resolves
Run1Resolves(r) ==
    /\ pc[r] = "run1"
    /\ \E resp \in BackendResponses, m \in Metas : Returns(r, resp, m)

\* the first call fails and is retried whatever the dialect is
Run1RejectsAnyDialect(r) ==
    /\ pc[r] = "run1"
    /\ results' = [results EXCEPT ![r] = Append(@, [ok |-> FALSE])]
    /\ calls' = [calls EXCEPT ![r] =
                    Append(@, [model |-> CfModel(body[r]).val,
                               request |-> FallbackRequest(body[r], aiRequest[r])])]
    /\ pc' = [pc EXCEPT ![r] = "run2"]
    /\ UNCHANGED <<env, globals, request, body, aiRequest, content, meta, idx, queue,
                   closed, response>>

\* the call of line 121 rejects: lines 122-135
Run1Rejects(r) ==
    /\ pc[r] = "run1"
    /\ results' = [results EXCEPT ![r] = Append(@, [ok |-> FALSE])]
    /\ IF UsesResponsesAPI(CfModel(body[r]).val)
       THEN /\ Respond(r, Caught(OtherError("AI.run")))
            /\ UNCHANGED calls
       ELSE /\ calls' = [calls EXCEPT ![r] =
                            Append(@, [model |-> CfModel(body[r]).val,
                                       request |-> FallbackRequest(body[r], aiRequest[r])])]
            /\ pc' = [pc EXCEPT ![r] = "run2"]
            /\ UNCHANGED response
    /\ UNCHANGED <<env, globals, request, body, aiRequest, content, meta, idx, queue, closed>>

\* the fallback call resolves and its value is dropped, as it is when the
\* call is awaited without being returned: callAI returns undefined
Run2ResolvesDropped(r) ==
    /\ pc[r] = "run2"
    /\ \E resp \in BackendResponses, m \in Metas :
          /\ results' = [results EXCEPT ![r] = Append(@, [ok |-> TRUE, value |-> resp])]
          /\ Finish(r, Undefined, m)
          /\ UNCHANGED <<env, globals, request, body, aiRequest, calls, idx, queue, closed>>

\* the fallback call of line 135 resolves
Run2Resolves(r) ==
    /\ pc[r] = "run2"
    /\ \E resp \in BackendResponses, m \in Metas : Returns(r, resp, m)

\* the fallback call of line 135 rejects
Run2Rejects(r) ==
    /\ pc[r] = "run2"
    /\ results' = [results EXCEPT ![r] = Append(@, [ok |-> FALSE])]
    /\ Respond(r, Caught(OtherError("AI.run")))
    /\ UNCHANGED <<env, globals, request, body, aiRequest, calls, content, meta, idx,
                   queue, closed>>

----------------------------------------------------------------------------
(* The specification of one request.                                       *)

NoRequest == [method |-> "", path |-> "", headers |-> <<>>, body |-> Undefined]
NoMeta == [completionId |-> "", timestamp |-> 0]

\* slot 1 waits for its request, the other slots are not in use
Init ==
    /\ env \in EnvValues
    /\ globals = Globals
    /\ pc = [r \in Reqs |-> IF r = 1 THEN "idle" ELSE "unused"]
    /\ request = [r \in Reqs |-> NoRequest]
    /\ body = [r \in Reqs |-> Undefined]
    /\ aiRequest = [r \in Reqs |-> Undefined]
    /\ calls = [r \in Reqs |-> <<>>]
    /\ results = [r \in Reqs |-> <<>>]
    /\ content = [r \in Reqs |-> <<>>]
    /\ meta = [r \in Reqs |-> NoMeta]
    /\ idx = [r \in Reqs |-> 0]
    /\ queue = [r \in Reqs |-> <<>>]
    /\ closed = [r \in Reqs |-> FALSE]
    /\ response = [r \in Reqs |-> NoResponse]

Next ==
    \E r \in Reqs :
        \/ Fetch(r)
        \/ HandleBody(r)
        \/ Run1Resolves(r)
        \/ Run1Rejects(r)
        \/ Run2Resolves(r)
        \/ Run2Rejects(r)
        \/ StreamOpen(r)
        \/ StreamChunk(r)
        \/ StreamTerminal(r)
        \/ StreamDone(r)
        \/ StreamClose(r)

Spec == Init /\ [][Next]_vars

\* start() runs to its end once createStreamResponse has called it: it is
\* synchronous code with no await
StreamStep(r) ==
    StreamOpen(r) \/ StreamChunk(r) \/ StreamTerminal(r) \/ StreamDone(r) \/ StreamClose(r)

FairSpec == Spec /\ \A r \in Reqs : WF_vars(StreamStep(r))

----------------------------------------------------------------------------
(* The specification of the stream emitter alone: createStreamResponse is  *)
(* called in slot 1 with a text of at most MaxLen units, which is plain or  *)
(* holds one surrogate pair.                                               *)

\* the text of n units whose units p and p + 1 are a surrogate pair (p = 0:
\* no pair)
TextWithPair(n, p) ==
    [k \in 1..n |-> IF p > 0 /\ k = p THEN "HI"
                    ELSE IF p > 0 /\ k = p + 1 THEN "LO" ELSE "a"]

\* where the pair of a text of n units can lie: inside the text, as a text
\* is well formed
PairPositions(n) == 0..(IF n = 0 THEN 0 ELSE n - 1)

StreamMeta == [completionId |-> "chatcmpl-1", timestamp |-> 1700000000]

StreamBody ==
    ObjectOf([messages |-> JArr(<<Message(RoleUser, <<"h", "i">>)>>),
              model |-> JStr(DeepseekR1), stream |-> JBool(TRUE)])

InitStream ==
    /\ env = [VALID_API_KEYS |-> Undefined]
    /\ globals = Globals
    /\ pc = [r \in Reqs |-> IF r = 1 THEN "open" ELSE "unused"]
    /\ request = [r \in Reqs |-> NoRequest]
    /\ body = [r \in Reqs |-> IF r = 1 THEN StreamBody ELSE Undefined]
    /\ aiRequest = [r \in Reqs |-> Undefined]
    /\ calls = [r \in Reqs |-> <<>>]
    /\ results = [r \in Reqs |-> <<>>]
    /\ \E n \in 0..MaxLen : \E p \in PairPositions(n) :
          content = [r \in Reqs |-> IF r = 1 THEN TextWithPair(n, p) ELSE <<>>]
    /\ meta = [r \in Reqs |-> IF r = 1 THEN StreamMeta ELSE NoMeta]
    /\ idx = [r \in Reqs |-> 0]
    /\ queue = [r \in Reqs |-> <<>>]
    /\ closed = [r \in Reqs |-> FALSE]
    /\ response = [r \in Reqs |-> NoResponse]

NextStream ==
    \E r \in Reqs :
        \/ StreamOpen(r)
        \/ StreamChunk(r)
        \/ StreamTerminal(r)
        \/ StreamDone(r)
        \/ StreamClose(r)

SpecStream == InitStream /\ [][NextStream]_vars

----------------------------------------------------------------------------
(* Vocabulary of the claims.                                               *)

\* the dialect of the request in slot r, read off the backend id of its
\* first env.AI.run invocation
Structured(r) == StartsWith(calls[r][1].model, ResponsesPrefix)

Failed(r, k) == Len(results[r]) >= k /\ ~results[r][k].ok
Succeeded(r, k) == Len(results[r]) >= k /\ results[r][k].ok

\* the body {error: {message, type, code}}
IsErrorResponse(resp) ==
    /\ resp.kind = "json"
    /\ DOMAIN resp.body = {"error"}
    /\ DOMAIN resp.body.error = {"message", "type", "code"}

IsCompletionResponse(resp) ==
    /\ resp.kind = "json"
    /\ "object" \in DOMAIN resp.body
    /\ resp.body.object = "chat.completion"

\* the chunks carried by the content-delta frames of q, in emission order
DeltaFrames(q) ==
    SelectSeq(q, LAMBDA f : f.kind = "json"
                            /\ DOMAIN f.payload.choices[1].delta = {"content"})

DeltaChunks(q) ==
    [k \in 1..Len(DeltaFrames(q)) |-> DeltaFrames(q)[k].payload.choices[1].delta.content]

\* the text the response of slot r carries to the client
DeliveredContent(r) ==
    IF response[r].kind = "stream" THEN Flatten(DeltaChunks(queue[r]))
    ELSE response[r].body.choices[1].message.content

IsChatRequest(req) == req.method = "POST" /\ req.path = "/v1/chat/completions"

----------------------------------------------------------------------------
(* C1 *)

\* C1: env.AI.run is invoked at most twice for a request; a second
\* invocation is there only when the first one failed and the dialect is
\* LEGACY; under STRUCTURED a failed first call ends the request with the
\* failure and no second call; a failed second call ends the request too.
C1_AtMostOneRetry ==
    \A r \in Reqs :
        /\ Len(calls[r]) <= 2
        /\ Len(results[r]) <= Len(calls[r])
        /\ Len(calls[r]) = 2 => Failed(r, 1) /\ ~Structured(r)
        /\ (Len(calls[r]) >= 1 /\ Structured(r) /\ Failed(r, 1)) =>
              /\ Len(calls[r]) = 1
              /\ pc[r] = "done"
              /\ response[r].status = 500
        /\ Failed(r, 2) => Len(calls[r]) = 2 /\ pc[r] = "done"

\* both calls of a LEGACY request have failed
C1_Witness ==
    \E r \in Reqs : Len(calls[r]) = 2 /\ ~Structured(r) /\ Failed(r, 1) /\ Failed(r, 2)

----------------------------------------------------------------------------
(* C2 *)

\* C2: under LEGACY, when the first call failed and the fallback call
\* succeeded, no response exists until the request ends, and it ends with
\* status 200 and the text extracted from the fallback call's response.
C2_FallbackSucceeds ==
    \A r \in Reqs :
        (Len(calls[r]) = 2 /\ ~Structured(r) /\ Failed(r, 1) /\ Succeeded(r, 2)) =>
            /\ pc[r] # "done" => response[r] = NoResponse
            /\ pc[r] = "done" =>
                  /\ response[r].status = 200
                  /\ ~IsErrorResponse(response[r])
                  /\ ~extractContent(results[r][2].value, FALSE).threw
                  /\ DeliveredContent(r) = extractContent(results[r][2].value, FALSE).text

\* the fallback call returned an echoed transcript, and the request ended
\* with the text after the cue
C2_Witness ==
    \E r \in Reqs :
        /\ pc[r] = "done"
        /\ Failed(r, 1) /\ Succeeded(r, 2)
        /\ Includes(Get(results[r][2].value, "response").val, Cue)
        /\ response[r].status = 200
        /\ DeliveredContent(r) = <<"y", "o">>

----------------------------------------------------------------------------
(* C3 *)

BackendFailed(r) ==
    \/ Len(calls[r]) >= 1 /\ Structured(r) /\ Failed(r, 1)
    \/ Len(calls[r]) >= 1 /\ ~Structured(r) /\ Failed(r, 1) /\ Failed(r, 2)

\* C3: when the backend has failed for good (the one STRUCTURED call, or
\* both LEGACY calls), the request has ended with status 500 and the body
\* {error: {message, type, code}}, with no completion object and no frame.
C3_BackendFailure ==
    \A r \in Reqs :
        BackendFailed(r) =>
            /\ pc[r] = "done"
            /\ response[r].status = 500
            /\ IsErrorResponse(response[r])
            /\ ~IsCompletionResponse(response[r])
            /\ queue[r] = <<>>

\* a STRUCTURED request whose only call failed, with streaming asked for
C3_Witness ==
    \E r \in Reqs :
        /\ Len(calls[r]) = 1 /\ Structured(r) /\ Failed(r, 1)
        /\ Truthy(Get(body[r], "stream"))
        /\ response[r].status = 500

----------------------------------------------------------------------------
(* C4 *)

\* C4: a chat-completion request that has ended without an error produced
\* exactly one output: with the stream flag true a closed frame sequence and
\* no completion object, with the flag false or absent one completion
\* object and no frame.
C4_ExactlyOneOutput ==
    \A r \in Reqs :
        (pc[r] = "done" /\ IsChatRequest(request[r]) /\ response[r].status = 200) =>
            IF Get(body[r], "stream") = JBool(TRUE)
            THEN /\ response[r].kind = "stream"
                 /\ queue[r] # <<>> /\ closed[r]
                 /\ ~IsCompletionResponse(response[r])
            ELSE /\ Get(body[r], "stream") \in {Undefined, JBool(FALSE)}
                 /\ IsCompletionResponse(response[r])
                 /\ queue[r] = <<>> /\ ~closed[r]

\* a request without the stream flag has ended with a completion object
C4_Witness ==
    \E r \in Reqs :
        /\ pc[r] = "done" /\ IsChatRequest(request[r])
        /\ Get(body[r], "stream") = Undefined
        /\ IsCompletionResponse(response[r])

----------------------------------------------------------------------------
(* C5 *)

\* what a frame is: "open", "delta", "terminal", "done", or "other"
FrameKind(f) ==
    IF f.kind = "done" THEN "done"
    ELSE LET choice == f.payload.choices[1]
         IN  IF DOMAIN choice.delta = {"role", "content"}
                THEN IF choice.delta.role = "assistant" /\ choice.delta.content = <<>>
                        /\ choice.finish_reason = "null"
                     THEN "open" ELSE "other"
             ELSE IF DOMAIN choice.delta = {"content"}
                THEN IF choice.finish_reason = "null" THEN "delta" ELSE "other"
             ELSE IF DOMAIN choice.delta = {} /\ choice.finish_reason = "stop"
                THEN "terminal" ELSE "other"

FramesInOrder(r) ==
    LET q == queue[r]
        n == Len(q)
        kinds == [k \in 1..n |-> FrameKind(q[k])]
        sent == Flatten(DeltaChunks(q))
    IN  /\ \A k \in 1..n : kinds[k] # "other"
        /\ \A k \in 1..n : (kinds[k] = "open") <=> (k = 1)
        /\ \A k \in 1..n : kinds[k] \in {"delta", "terminal"} =>
                              k > 1 /\ kinds[k - 1] \in {"open", "delta"}
        /\ \A k \in 1..n : kinds[k] = "done" =>
                              k = n /\ k > 1 /\ kinds[k - 1] = "terminal"
        /\ Len(sent) <= Len(content[r])
        /\ sent = SubSeq(content[r], 1, Len(sent))
        /\ closed[r] => n >= 1 /\ kinds[n] = "done"
        /\ n >= 1 /\ kinds[n] = "done" => pc[r] \in {"close", "done"}

\* C5: the frames on the stream are, in this order, one role-open frame,
\* the content-delta frames carrying the text from left to right, one
\* terminal frame and one [DONE] sentinel; the stream is closed right after
\* the sentinel, and no frame is enqueued once it is closed.
C5_StrictOrder ==
    /\ [](\A r \in Reqs : FramesInOrder(r))
    /\ [][\A r \in Reqs : closed[r] => queue'[r] = queue[r] /\ closed'[r]]_vars

\* a closed stream with several content-delta frames
C5_Witness ==
    \E r \in Reqs :
        /\ closed[r]
        /\ Len(DeltaFrames(queue[r])) >= 2
        /\ queue[r][Len(queue[r])] = DoneFrame

----------------------------------------------------------------------------
(* C6 *)

\* C6: once the loop of the emitter has ended, a text of n units has given
\* ceil(n / 100) content-delta frames, each of 100 units but the last, which
\* has between 1 and 100, and their chunks concatenate to the text.
C6_ChunkCount ==
    \A r \in Reqs :
        (pc[r] \in {"sentinel", "close", "done"} /\ queue[r] # <<>>) =>
            LET chunks == DeltaChunks(queue[r])
                n == Len(content[r])
            IN  /\ Len(chunks) = (n + 99) \div 100
                /\ n = 0 => Len(chunks) = 0
                /\ \A k \in 1..(Len(chunks) - 1) : Len(chunks[k]) = 100
                /\ Len(chunks) > 0 =>
                      Len(chunks[Len(chunks)]) \in 1..100
                /\ Flatten(chunks) = content[r]

\* a text of more than 200 units has been sent in three chunks, the last
\* one short
C6_Witness ==
    \E r \in Reqs :
        /\ pc[r] = "done"
        /\ Len(content[r]) > 200
        /\ Len(DeltaChunks(queue[r])) = 3
        /\ Len(DeltaChunks(queue[r])[3]) < 100

----------------------------------------------------------------------------
(* C7 *)

\* C7: no content-delta chunk starts or ends inside a surrogate pair: no
\* chunk starts with the low half of a pair or ends with the high half.
C7_CodePointBoundaries ==
    \A r \in Reqs :
        \A k \in 1..Len(DeltaChunks(queue[r])) :
            LET chunk == DeltaChunks(queue[r])[k]
            IN  chunk # <<>> => chunk[1] # "LO" /\ chunk[Len(chunk)] # "HI"

----------------------------------------------------------------------------
(* C8 *)

LastResult(r) == results[r][Len(results[r])]

NoFrameBeforeContent(r) ==
    /\ queue[r] # <<>> =>
          /\ Len(results[r]) >= 1
          /\ Len(results[r]) = Len(calls[r])
          /\ LastResult(r).ok
          /\ ~extractContent(LastResult(r).value, Structured(r)).threw
          /\ content[r] = extractContent(LastResult(r).value, Structured(r)).text
          /\ response[r].status \in {0, 200}
    /\ response[r].status >= 400 => IsErrorResponse(response[r]) /\ queue[r] = <<>>
    /\ (pc[r] = "done" /\ IsChatRequest(request[r]) /\ response[r].kind # "stream") =>
          queue[r] = <<>>

\* C8: a frame is on the stream only when every backend call of the request
\* has finished, the last one successfully, and the content has been
\* extracted; a request answered with an error has no frame; and a stream
\* with a frame on it goes on to the [DONE] sentinel and is closed.
C8_NoFrameBeforeContent ==
    /\ [](\A r \in Reqs : NoFrameBeforeContent(r))
    /\ \A r \in Reqs :
          (queue[r] # <<>>) ~> (closed[r] /\ queue[r][Len(queue[r])] = DoneFrame)

\* a streaming request whose backend call succeeded and whose extraction
\* threw has ended with an error and no frame
C8_Witness ==
    \E r \in Reqs :
        /\ pc[r] = "done"
        /\ Get(body[r], "stream") = JBool(TRUE)
        /\ Succeeded(r, 1)
        /\ extractContent(results[r][1].value, Structured(r)).threw
        /\ IsErrorResponse(response[r])
        /\ queue[r] = <<>>

----------------------------------------------------------------------------
(* C9 *)

\* the request in slot r has passed every check before model resolution
ReachedModelResolution(r) ==
    /\ body[r].type = "object"
    /\ Get(body[r], "messages").type = "array"
    /\ Get(body[r], "messages").val # <<>>

\* C9: a request with a model identifier that is no key of the registry is
\* answered 400 model_not_found without a backend call; a request with a key
\* of the registry, or without an identifier, calls the backend id the
\* registry gives for it (for no identifier: for deepseek-r1).
C9_UnknownModelRejected ==
    \A r \in Reqs :
        (pc[r] = "done" /\ ReachedModelResolution(r)) =>
            LET model == Get(body[r], "model")
            IN  /\ (model.type = "string" /\ model.val # <<>> /\ model.val \notin ModelKeys) =>
                      /\ response[r].status = 400
                      /\ response[r].body.error.code = "model_not_found"
                      /\ calls[r] = <<>>
                /\ (model.type = "string" /\ model.val \in ModelKeys) =>
                      /\ calls[r] # <<>>
                      /\ \A k \in 1..Len(calls[r]) : JStr(calls[r][k].model) = Lookup(model.val)
                /\ model.type = "undefined" =>
                      /\ calls[r] # <<>>
                      /\ \A k \in 1..Len(calls[r]) : JStr(calls[r][k].model) = Lookup(DeepseekR1)

----------------------------------------------------------------------------
(* C10 *)

\* the messages field of the JSON object b is missing, no sequence, or empty
BadMessages(b) ==
    \/ Get(b, "messages").type # "array"
    \/ Get(b, "messages").val = <<>>

\* C10 as claimed: an authenticated chat-completion request whose messages
\* field is missing, no sequence or empty is answered 400 invalid_parameter
\* without a backend call.
C10_AsClaimed ==
    \A r \in Reqs :
        (/\ pc[r] = "done"
         /\ IsChatRequest(request[r])
         /\ validateAuth(request[r], env).ok
         /\ request[r].body.type = "object"
         /\ BadMessages(request[r].body)) =>
            /\ response[r].status = 400
            /\ response[r].body.error.code = "invalid_parameter"
            /\ calls[r] = <<>>

\* the declared size of the request is at most 1 MB, or none is declared
DeclaredSizeOk(req) ==
    \/ "content-length" \notin DOMAIN req.headers
    \/ ParseInt(req.headers["content-length"]) <= 1048576

\* C10, amended: an authenticated chat-completion request that declares no
\* body size above 1 MB, whose body is a JSON object and whose messages
\* field is missing, no sequence or empty is answered 400 invalid_parameter,
\* whatever its model field is, without a backend call.
C10_InvalidMessages ==
    \A r \in Reqs :
        (/\ pc[r] = "done"
         /\ IsChatRequest(request[r])
         /\ validateAuth(request[r], env).ok
         /\ DeclaredSizeOk(request[r])
         /\ request[r].body.type = "object"
         /\ BadMessages(request[r].body)) =>
            /\ response[r].status = 400
            /\ response[r].body.error.code = "invalid_parameter"
            /\ calls[r] = <<>>

\* a request with an empty messages sequence and a model that is no key of
\* the registry has been answered 400 invalid_parameter
C10_Witness ==
    \E r \in Reqs :
        /\ pc[r] = "done"
        /\ IsChatRequest(request[r])
        /\ Get(body[r], "messages") = JArr(<<>>)
        /\ Get(body[r], "model") = JStr(NotAModel)
        /\ response[r].status = 400
        /\ response[r].body.error.code = "invalid_parameter"

----------------------------------------------------------------------------
(* C11 *)

\* the method and the path of req match none of the routes
NoRoute(req) ==
    /\ req.method # "OPTIONS"
    /\ ~(req.method = "POST" /\ req.path = "/v1/chat/completions")
    /\ ~(req.method = "GET" /\ req.path = "/v1/models")
    /\ ~(req.method = "GET" /\ req.path = "/health")

\* C11 as claimed: every request that matches no route is answered 404 with
\* the body {error: {message, type, code}}.
C11_AsClaimed ==
    \A r \in Reqs :
        (pc[r] = "done" /\ NoRoute(request[r])) =>
            /\ response[r].status = 404
            /\ IsErrorResponse(response[r])

\* C11, amended: a request that matches no route and carries a valid API
\* key is answered 404 with the body {error: {message, type, code}} and the
\* code not_found; one that matches no route and carries no valid key is
\* answered 401; in both cases the backend is not called.
C11_UnmatchedRoute ==
    \A r \in Reqs :
        (pc[r] = "done" /\ NoRoute(request[r])) =>
            /\ IsErrorResponse(response[r])
            /\ calls[r] = <<>>
            /\ IF validateAuth(request[r], env).ok
               THEN /\ response[r].status = 404
                    /\ response[r].body.error.code = "not_found"
               ELSE /\ response[r].status = 401
                    /\ response[r].body.error.code = "invalid_api_key"

\* an authenticated GET of the chat-completions path has been answered 404
C11_Witness ==
    \E r \in Reqs :
        /\ pc[r] = "done"
        /\ request[r].method = "GET"
        /\ request[r].path = "/v1/chat/completions"
        /\ validateAuth(request[r], env).ok
        /\ response[r].status = 404

----------------------------------------------------------------------------
(* The specification of the extractor: a chat-completion request of either *)
(* dialect is suspended at its first backend call, and the call resolves   *)
(* to any of the response shapes the extractor probes for.                 *)

ApiKey == <<"k", "1">>

\* an authenticated POST /v1/chat/completions with the JSON body b
ChatRequest(b) ==
    [method |-> "POST", path |-> "/v1/chat/completions",
     headers |-> HeadersOf(JStr(Bearer \o ApiKey), Absent),
     body |-> b]

EchoedText == <<"x", " ">> \o Cue \o <<"a", " ">> \o Cue \o <<"b">>

ResponseFieldValues == {Absent, JStr(<<>>), JStr(<<"r", "0">>), JStr(Cue), JStr(EchoedText)}

GeneratedTextValues == {Absent, JStr(<<>>), JStr(<<"g", "0">>)}

ChoicesValues == {
    Absent,
    JArr(<<>>),
    JArr(<<JObj([message |-> JObj([content |-> JStr(<<"c", "0">>)])])>>) }

OutputValues == {
    Absent,
    JStr(<<"o", "0">>),
    JArr(<<>>),
    JArr(<<JObj([content |-> JArr(<<OutputItem(OutputText, <<"A">>)>>)]),
           JObj([content |-> JArr(<<OutputItem(<<"r", "e", "a", "s", "o", "n", "i", "n", "g", "_", "t", "e", "x", "t">>, <<"r">>),
                                    OutputItem(OutputText, <<"B">>)>>)])>>),
    JArr(<<JObj([content |-> JArr(<<OutputItem(OutputText, Cue \o <<"h", "i">>)>>)])>>),
    JArr(<<JObj([type |-> JStr(<<"r", "e", "a", "s", "o", "n", "i", "n", "g">>)])>>) }

\* what env.AI.run can resolve to: a plain text, or an object with any of
\* the fields response, generated_text, choices and output
ExtractorResponses ==
    {JStr(<<>>), JStr(<<"p", "l", "a", "i", "n">>), JStr(EchoedText)}
    \cup {ObjectOf([response |-> rs, generated_text |-> gt, choices |-> ch, output |-> ou]) :
            rs \in ResponseFieldValues, gt \in GeneratedTextValues,
            ch \in ChoicesValues, ou \in OutputValues}

\* the state HandleBody leaves slot 1 in for the request req, whose body has
\* valid messages and a model of the table
Suspended(req) ==
    /\ env = [VALID_API_KEYS |-> JStr(<<"k", "1", ",", "k", "2">>)]
    /\ globals = Globals
    /\ pc = [r \in Reqs |-> IF r = 1 THEN "run1" ELSE "unused"]
    /\ request = [r \in Reqs |-> IF r = 1 THEN req ELSE NoRequest]
    /\ body = [r \in Reqs |-> IF r = 1 THEN req.body ELSE Undefined]
    /\ aiRequest = [r \in Reqs |-> IF r = 1 THEN buildAIRequest(req.body, CfModel(req.body).val)
                                  ELSE Undefined]
    /\ calls = [r \in Reqs |-> IF r = 1
                              THEN <<[model |-> CfModel(req.body).val,
                                      request |-> buildAIRequest(req.body, CfModel(req.body).val)]>>
                              ELSE <<>>]
    /\ results = [r \in Reqs |-> <<>>]
    /\ content = [r \in Reqs |-> <<>>]
    /\ meta = [r \in Reqs |-> NoMeta]
    /\ idx = [r \in Reqs |-> 0]
    /\ queue = [r \in Reqs |-> <<>>]
    /\ closed = [r \in Reqs |-> FALSE]
    /\ response = [r \in Reqs |-> NoResponse]

InitExtract ==
    \E md \in {DeepseekR1, GptOss120b} :
        Suspended(ChatRequest(ObjectOf([messages |-> JArr(<<Message(RoleUser, <<"h", "i">>)>>),
                                        model |-> JStr(md)])))

\* the call of line 121 resolves to one of the extractor's response shapes
Run1ResolvesShaped(r) ==
    /\ pc[r] = "run1"
    /\ \E resp \in ExtractorResponses, m \in Metas : Returns(r, resp, m)

\* the fallback call of line 135 resolves to one of the extractor's
\* response shapes
Run2ResolvesShaped(r) ==
    /\ pc[r] = "run2"
    /\ \E resp \in ExtractorResponses, m \in Metas : Returns(r, resp, m)

NextExtract ==
    \E r \in Reqs :
        \/ Run1ResolvesShaped(r)
        \/ Run1Rejects(r)
        \/ Run2ResolvesShaped(r)
        \/ Run2Rejects(r)

SpecExtract == InitExtract /\ [][NextExtract]_vars

----------------------------------------------------------------------------
(* Vocabulary of the extractor's claims.                                   *)

\* the last backend call of the request in slot r resolved, and the request
\* has gone on past the extractor
Extracted(r) ==
    /\ Len(results[r]) >= 1
    /\ Len(results[r]) = Len(calls[r])
    /\ LastResult(r).ok
    /\ pc[r] \notin {"run1", "run2"}

\* the extractor returned a text, which the response of slot r carries
ExtractedText(r) ==
    /\ Extracted(r)
    /\ response[r].status \in {0, 200}

\* the field k of the response v is populated: a text that is not empty
Populated(v, k) ==
    /\ v.type = "object"
    /\ k \in DOMAIN v.val
    /\ v.val[k].type = "string"
    /\ v.val[k].val # <<>>

\* choices[0].message.content of the response v is populated
PopulatedChoice(v) ==
    /\ v.type = "object"
    /\ "choices" \in DOMAIN v.val
    /\ v.val.choices.type = "array"
    /\ v.val.choices.val # <<>>
    /\ v.val.choices.val[1].type = "object"
    /\ "message" \in DOMAIN v.val.choices.val[1].val
    /\ Populated(v.val.choices.val[1].val.message, "content")

\* the text after the last occurrence of the cue in t, t itself without one
AfterLastCue(t) ==
    LET at == {k \in 1..(Len(t) - Len(Cue) + 1) : SubSeq(t, k, k + Len(Cue) - 1) = Cue}
    IN  IF at = {} THEN t
        ELSE LET last == CHOOSE k \in at : \A j \in at : j <= k
             IN  SubSeq(t, last + Len(Cue), Len(t))

\* the text the priority order of the claim picks from the response v, and
\* what becomes of it
PickedByPriority(v) ==
    IF Populated(v, "response") THEN AfterLastCue(v.val.response.val)
    ELSE IF Populated(v, "generated_text") THEN AfterLastCue(v.val.generated_text.val)
    ELSE IF PopulatedChoice(v) THEN AfterLastCue(v.val.choices.val[1].val.message.val.content.val)
    ELSE IF v.type = "string" /\ v.val # <<>> THEN AfterLastCue(v.val)
    ELSE JsonStringify(v)

\* the response v has an output field that is a sequence
HasOutputSequence(v) ==
    v.type = "object" /\ "output" \in DOMAIN v.val /\ v.val.output.type = "array"

----------------------------------------------------------------------------
(* C12 *)

\* C12: the text the extractor returned never contains the cue 'Assistant: ',
\* whichever dialect and whichever response shape produced it.
C12_NoCueInResult ==
    \A r \in Reqs : ExtractedText(r) => ~Includes(content[r], Cue)

----------------------------------------------------------------------------
(* C13 *)

----------------------------------------------------------------------------
(* C14 *)

\* C14: under LEGACY the result is the text of the first populated of the
\* response field, the generated_text field, choices[0].message.content and
\* the response itself when it is a plain text, cut after its last cue; when
\* none is populated it is the serialized response; no error is raised.
C14_PriorityOrder ==
    \A r \in Reqs :
        (Extracted(r) /\ ~Structured(r)) =>
            /\ response[r].status \in {0, 200}
            /\ content[r] = PickedByPriority(LastResult(r).value)

\* a LEGACY request whose response has an empty response field, a populated
\* generated_text field and a populated choice has ended with the text of
\* generated_text
C14_Witness ==
    \E r \in Reqs :
        /\ pc[r] = "done" /\ Extracted(r) /\ ~Structured(r)
        /\ Get(LastResult(r).value, "response") = JStr(<<>>)
        /\ Populated(LastResult(r).value, "generated_text")
        /\ PopulatedChoice(LastResult(r).value)
        /\ content[r] = Get(LastResult(r).value, "generated_text").val

----------------------------------------------------------------------------
(* The specification of the request builder and of the fallback request:   *)
(* a chat-completion request whose body holds any list of at most MaxMsgs  *)
(* messages is suspended at the await of request.json(); the backend       *)
(* rejects every call.                                                     *)

\* the longest message list
MaxMsgs == 3

Roles == {RoleSystem, RoleUser, RoleAssistant}

Digits == <<"1", "2", "3", "4", "5", "6", "7", "8", "9">>

\* the message lists of n messages: every message has one of the three
\* roles, and a content that is empty or names its place in the list
MessageLists(n) ==
    {[k \in 1..n |-> Message(f[k].role, IF f[k].empty THEN <<>> ELSE <<"m", Digits[k]>>)] :
        f \in [1..n -> [role : Roles, empty : BOOLEAN]]}

BuilderBodies ==
    {ObjectOf([messages |-> JArr(ms), model |-> JStr(md), temperature |-> t, max_tokens |-> mt]) :
        ms \in UNION {MessageLists(n) : n \in 1..MaxMsgs},
        md \in {DeepseekR1, GptOss120b},
        t \in {Absent, JNum(<<"0">>)},
        mt \in {Absent, JNum(<<"6", "4">>)}}

\* the state fetch leaves slot 1 in at the await of request.json()
InitBuild ==
    /\ env = [VALID_API_KEYS |-> JStr(<<"k", "1", ",", "k", "2">>)]
    /\ globals = Globals
    /\ pc = [r \in Reqs |-> IF r = 1 THEN "json" ELSE "unused"]
    /\ \E b \in BuilderBodies :
          request = [r \in Reqs |-> IF r = 1 THEN ChatRequest(b) ELSE NoRequest]
    /\ body = [r \in Reqs |-> Undefined]
    /\ aiRequest = [r \in Reqs |-> Undefined]
    /\ calls = [r \in Reqs |-> <<>>]
    /\ results = [r \in Reqs |-> <<>>]
    /\ content = [r \in Reqs |-> <<>>]
    /\ meta = [r \in Reqs |-> NoMeta]
    /\ idx = [r \in Reqs |-> 0]
    /\ queue = [r \in Reqs |-> <<>>]
    /\ closed = [r \in Reqs |-> FALSE]
    /\ response = [r \in Reqs |-> NoResponse]

NextBuild ==
    \E r \in Reqs :
        \/ HandleBody(r)
        \/ Run1Rejects(r)
        \/ Run2Rejects(r)

SpecBuild == InitBuild /\ [][NextBuild]_vars

----------------------------------------------------------------------------
(* Vocabulary of the builder's claims.                                     *)

\* the messages of the body of slot r, as records [role, content] of texts
MessagesOf(r) ==
    LET ms == body[r].val.messages.val
    IN  [k \in 1..Len(ms) |-> [role |-> ms[k].val.role.val, content |-> ms[k].val.content.val]]

\* the contents of the messages of ms that have the role, in their order
RECURSIVE ContentsWithRole(_, _)
ContentsWithRole(ms, role) ==
    IF ms = <<>> THEN <<>>
    ELSE (IF ms[1].role = role THEN <<ms[1].content>> ELSE <<>>)
         \o ContentsWithRole(Tail(ms), role)

\* the texts of ts with one newline between each two
RECURSIVE Lines(_)
Lines(ts) ==
    IF ts = <<>> THEN <<>>
    ELSE IF Len(ts) = 1 THEN ts[1]
    ELSE Lines(SubSeq(ts, 1, Len(ts) - 1)) \o <<"\n">> \o ts[Len(ts)]

\* the request of the k-th backend call of slot r, as the record of its fields
CallRequest(r, k) == calls[r][k].request.val

----------------------------------------------------------------------------
(* C15 *)

\* C15 as claimed: under STRUCTURED, input is the newline-join of the
\* contents of the user-role messages in their order, and instructions is
\* the content of the first system-role message, or the default when the
\* list has no system-role message.
C15_AsClaimed ==
    \A r \in Reqs :
        (Len(calls[r]) >= 1 /\ Structured(r)) =>
            LET systems == ContentsWithRole(MessagesOf(r), RoleSystem)
            IN  /\ CallRequest(r, 1).input = JStr(Lines(ContentsWithRole(MessagesOf(r), RoleUser)))
                /\ CallRequest(r, 1).instructions =
                      IF systems = <<>> THEN JStr(DefaultInstructions) ELSE JStr(systems[1])

\* C15, amended: under STRUCTURED, input is the newline-join of the contents
\* of the user-role messages in their order, and instructions is the content
\* of the first system-role message when the list has one and its content
\* is not empty, and the default otherwise.
C15_StructuredRequest ==
    \A r \in Reqs :
        (Len(calls[r]) >= 1 /\ Structured(r)) =>
            LET systems == ContentsWithRole(MessagesOf(r), RoleSystem)
            IN  /\ CallRequest(r, 1).input = JStr(Lines(ContentsWithRole(MessagesOf(r), RoleUser)))
                /\ CallRequest(r, 1).instructions =
                      IF systems = <<>> \/ systems[1] = <<>>
                      THEN JStr(DefaultInstructions) ELSE JStr(systems[1])

\* a STRUCTURED request with a user, a system and a user message has been
\* built: input is the two user contents, instructions the system content
C15_Witness ==
    \E r \in Reqs :
        /\ Len(calls[r]) >= 1 /\ Structured(r)
        /\ Len(MessagesOf(r)) = 3
        /\ MessagesOf(r)[2] = [role |-> RoleSystem, content |-> <<"m", "2">>]
        /\ CallRequest(r, 1).input = JStr(<<"m", "1", "\n", "m", "3">>)
        /\ CallRequest(r, 1).instructions = JStr(<<"m", "2">>)

----------------------------------------------------------------------------
(* C18 *)

\* the label of a role in the transcript
LabelOf(role) ==
    IF role = RoleSystem THEN <<"S", "y", "s", "t", "e", "m">>
    ELSE IF role = RoleUser THEN <<"U", "s", "e", "r">>
    ELSE <<"A", "s", "s", "i", "s", "t", "a", "n", "t">>

\* one entry per message, a blank line after each, and the cue at the end
RECURSIVE Transcript(_)
Transcript(ms) ==
    IF ms = <<>> THEN <<"A", "s", "s", "i", "s", "t", "a", "n", "t", ":", " ">>
    ELSE LabelOf(ms[1].role) \o <<":", " ">> \o ms[1].content \o <<"\n", "\n">> \o Transcript(Tail(ms))

\* the value the request resolved for a numeric field: the one of the body
\* when the body has one, else the default
Resolved(r, field, default) ==
    IF field \in DOMAIN body[r].val THEN body[r].val[field] ELSE default

\* C18: the fallback request of a LEGACY request has exactly the fields
\* prompt, temperature, top_p and max_tokens; the three numeric values are
\* those of the first request, which are those of the body or the defaults;
\* the prompt is the transcript of the whole message list with the cue at
\* its end; the fallback call goes to the same backend id, and the body is
\* the one the request came with.
C18_FallbackRequest ==
    \A r \in Reqs :
        Len(calls[r]) = 2 =>
            /\ ~Structured(r)
            /\ DOMAIN CallRequest(r, 2) = {"prompt", "temperature", "top_p", "max_tokens"}
            /\ CallRequest(r, 2).prompt = JStr(Transcript(MessagesOf(r)))
            /\ \A f \in {"temperature", "top_p", "max_tokens"} :
                  CallRequest(r, 2)[f] = CallRequest(r, 1)[f]
            /\ CallRequest(r, 2).temperature = Resolved(r, "temperature", JNum(<<"0", ".", "7">>))
            /\ CallRequest(r, 2).top_p = Resolved(r, "top_p", JNum(<<"0", ".", "9">>))
            /\ CallRequest(r, 2).max_tokens = Resolved(r, "max_tokens", JNum(<<"4", "0", "9", "6">>))
            /\ calls[r][2].model = calls[r][1].model
            /\ body[r] = request[r].body

\* the fallback request of a body with a temperature of 0, no max_tokens and
\* a system, a user and an assistant message has been sent
C18_Witness ==
    \E r \in Reqs :
        /\ Len(calls[r]) = 2
        /\ Get(body[r], "temperature") = JNum(<<"0">>)
        /\ Get(body[r], "max_tokens") = Undefined
        /\ CallRequest(r, 2).temperature = JNum(<<"0">>)
        /\ CallRequest(r, 2).max_tokens = JNum(<<"4", "0", "9", "6">>)
        /\ CallRequest(r, 2).prompt =
              JStr(<<"S", "y", "s", "t", "e", "m", ":", " ", "m", "1", "\n", "\n", "U", "s", "e", "r", ":", " ", "m", "2", "\n", "\n", "A", "s", "s", "i", "s", "t", "a", "n", "t", ":", " ", "m", "3", "\n", "\n", "A", "s", "s", "i", "s", "t", "a", "n", "t", ":", " ">>)

----------------------------------------------------------------------------
(* The specification of the token estimator: a LEGACY request without the  *)
(* stream flag is suspended at its backend call, and the call resolves to  *)
(* a response field that holds any text of at most MaxText units, plain or *)
(* with one CJK unit, as it is or after an echoed cue.                     *)

\* the longest text given to the estimator
MaxText == 14

\* the text of n units whose unit p is a CJK unit (p = 0: none)
TextWithCJK(n, p) == [k \in 1..n |-> IF k = p THEN "CJK" ELSE "a"]

EstimatorResponses ==
    {JObj([response |-> JStr(pre \o TextWithCJK(n, p))]) :
        pre \in {<<>>, Cue}, n \in 0..MaxText, p \in 0..MaxText}

InitEstimate ==
    Suspended(ChatRequest(ObjectOf([messages |-> JArr(<<Message(RoleUser, <<"h", "i">>)>>),
                                    model |-> JStr(DeepseekR1)])))

\* the call of line 121 resolves to a response field with a text
Run1ResolvesText(r) ==
    /\ pc[r] = "run1"
    /\ \E resp \in EstimatorResponses, m \in Metas : Returns(r, resp, m)

NextEstimate == \E r \in Reqs : Run1ResolvesText(r)

SpecEstimate == InitEstimate /\ [][NextEstimate]_vars

----------------------------------------------------------------------------
(* C16 *)

\* the least k with k * den >= num: the ceiling of num / den
Ceiling(num, den) == CHOOSE k \in 0..num : k * den >= num /\ \A j \in 0..(k - 1) : j * den < num

HasCJK(text) == \E k \in 1..Len(text) : text[k] = "CJK"

\* the request of slot r has ended with a completion object
Completed(r) == pc[r] = "done" /\ IsCompletionResponse(response[r])

\* completion_tokens is the estimate of the content: 0 for the empty text,
\* more for any other, ceil(n / 1.8) with a CJK unit and ceil(n / 4) without
EstimateOfContent(r) ==
    LET n == Len(content[r])
        tokens == response[r].body.usage.completion_tokens
    IN  /\ response[r].body.choices[1].message.content = content[r]
        /\ (n = 0) <=> (tokens = 0)
        /\ tokens >= 0
        /\ tokens = IF HasCJK(content[r]) THEN Ceiling(10 * n, 18) ELSE Ceiling(n, 4)

\* C16 as claimed: the estimate is 0 for the empty text and more for any
\* other; a text of n >= 1 units with a CJK unit gets ceil(n / 1.8), which is
\* more than the ceil(n / 4) of a text of n units without one.
C16_AsClaimed ==
    \A r \in Reqs :
        Completed(r) =>
            /\ EstimateOfContent(r)
            /\ (Len(content[r]) >= 1 /\ HasCJK(content[r])) =>
                  response[r].body.usage.completion_tokens > Ceiling(Len(content[r]), 4)

\* C16, amended: the estimate is 0 for the empty text and more for any
\* other; a text of n units with a CJK unit gets ceil(n / 1.8) and one
\* without gets ceil(n / 4); the first is more than the second for every
\* n >= 2, and both are 1 for n = 1.
C16_Estimate ==
    \A r \in Reqs :
        Completed(r) =>
            /\ EstimateOfContent(r)
            /\ (Len(content[r]) >= 2 /\ HasCJK(content[r])) =>
                  response[r].body.usage.completion_tokens > Ceiling(Len(content[r]), 4)
            /\ Len(content[r]) = 1 =>
                  /\ response[r].body.usage.completion_tokens = 1
                  /\ Ceiling(1, 4) = 1

\* a text of nine units with a CJK unit has been estimated at five tokens,
\* where nine plain units give three
C16_Witness ==
    \E r \in Reqs :
        /\ Completed(r)
        /\ Len(content[r]) = 9 /\ HasCJK(content[r])
        /\ response[r].body.usage.completion_tokens = 5
        /\ Ceiling(9, 4) = 3

----------------------------------------------------------------------------
(* The specification of concurrent requests: every slot takes a request,   *)
(* and the steps of the slots interleave at the awaits (request.json(),    *)
(* env.AI.run) and, in the model, at the steps of the emitter.             *)

ConcRequests == {
    ChatRequest(ObjectOf([messages |-> JArr(<<Message(RoleUser, <<"h", "i">>)>>),
                          model |-> JStr(DeepseekR1), stream |-> JBool(TRUE)])),
    ChatRequest(ObjectOf([messages |-> JArr(<<Message(RoleSystem, <<"b", "e", " ", "k", "i", "n", "d">>),
                                              Message(RoleUser, <<"q", "1">>)>>),
                          model |-> JStr(GptOss120b)])),
    ChatRequest(ObjectOf([messages |-> JArr(<<>>), model |-> JStr(DeepseekR1)])) }

ConcResponses == {
    JObj([response |-> JStr(<<"o", "k">>)]),
    JObj([output |-> JArr(<<JObj([content |-> JArr(<<OutputItem(OutputText, <<"A">>)>>)])>>)]) }

\* crypto.randomUUID() and Date.now() of the request in slot r
ConcMeta(r) ==
    [completionId |-> IF r = 1 THEN "chatcmpl-1" ELSE "chatcmpl-2",
     timestamp |-> 1700000000 + r]

\* every slot waits for its request
InitConc ==
    /\ env = [VALID_API_KEYS |-> JStr(<<"k", "1", ",", "k", "2">>)]
    /\ globals = Globals
    /\ pc = [r \in Reqs |-> "idle"]
    /\ request = [r \in Reqs |-> NoRequest]
    /\ body = [r \in Reqs |-> Undefined]
    /\ aiRequest = [r \in Reqs |-> Undefined]
    /\ calls = [r \in Reqs |-> <<>>]
    /\ results = [r \in Reqs |-> <<>>]
    /\ content = [r \in Reqs |-> <<>>]
    /\ meta = [r \in Reqs |-> NoMeta]
    /\ idx = [r \in Reqs |-> 0]
    /\ queue = [r \in Reqs |-> <<>>]
    /\ closed = [r \in Reqs |-> FALSE]
    /\ response = [r \in Reqs |-> NoResponse]

\* a request arrives in slot r while other requests are being handled
FetchConc(r) == pc[r] = "idle" /\ \E req \in ConcRequests : FetchRequest(r, req)

\* the call of line 121 of the request in slot r resolves
Run1ResolvesConc(r) ==
    /\ pc[r] = "run1"
    /\ \E resp \in ConcResponses : Returns(r, resp, ConcMeta(r))

\* the fallback call of line 135 of the request in slot r resolves
Run2ResolvesConc(r) ==
    /\ pc[r] = "run2"
    /\ \E resp \in ConcResponses : Returns(r, resp, ConcMeta(r))

NextConc ==
    \E r \in Reqs :
        \/ FetchConc(r)
        \/ HandleBody(r)
        \/ Run1ResolvesConc(r)
        \/ Run1Rejects(r)
        \/ Run2ResolvesConc(r)
        \/ Run2Rejects(r)
        \/ StreamOpen(r)
        \/ StreamChunk(r)
        \/ StreamTerminal(r)
        \/ StreamDone(r)
        \/ StreamClose(r)

SpecConc == InitConc /\ [][NextConc]_vars

----------------------------------------------------------------------------
(* C17 *)

\* the response fetch gives the request req when it is handled alone in the
\* environment e, its backend calls ending as outs tells, with the
\* completion id and timestamp m
AloneResponse(req, e, outs, m) ==
    LET b == req.body
        cfModel == CfModel(b)
    IN  IF req.method = "OPTIONS" THEN [status |-> 204, kind |-> "empty"]
        ELSE IF req.method = "GET" /\ req.path = "/health" THEN handleHealth
        ELSE IF req.method = "GET" /\ req.path = "/v1/models" THEN handleModels
        ELSE IF ~validateAuth(req, e).ok THEN Caught(validateAuth(req, e).error)
        ELSE IF ~IsChatRequest(req) THEN Caught(NotFound)
        ELSE IF TooLarge(req)
            THEN Caught(APIError(<<"Request body too large">>, 413, "payload_too_large"))
        ELSE IF b.type = "malformed" THEN Caught(OtherError("SyntaxError"))
        ELSE IF Nullish(b) THEN Caught(TypeError)
        ELSE IF MessagesInvalid(b)
            THEN Caught(APIError(<<"Messages must be a non-empty array">>, 400,
                                 "invalid_parameter"))
        ELSE IF ~Truthy(cfModel)
            THEN Caught(APIError(<<"Model '", ModelOf(b), "' not supported">>, 400,
                                 "model_not_found"))
        ELSE IF cfModel.type # "string" THEN Caught(TypeError)
        ELSE IF ~outs[Len(outs)].ok THEN Caught(OtherError("AI.run"))
        ELSE LET extracted == extractContent(outs[Len(outs)].value,
                                             UsesResponsesAPI(cfModel.val))
             IN  IF extracted.threw THEN Caught(TypeError)
                 ELSE IF WantsStream(b) THEN StreamResponse
                 ELSE createResponse(Completion(m, b, extracted.text), 200)

\* the frames of a whole stream of the text for the body b
RECURSIVE ContentFrames(_, _, _, _)
ContentFrames(m, model, text, i) ==
    IF i >= Len(text) THEN <<>>
    ELSE <<ContentFrame(m, model, text, i)>> \o ContentFrames(m, model, text, i + 100)

AloneFrames(b, text, m) ==
    <<RoleOpenFrame(m, ModelOf(b).val)>>
    \o ContentFrames(m, ModelOf(b).val, text, 0)
    \o <<TerminalFrame(m, ModelOf(b).val), DoneFrame>>

\* what a step leaves alone of the request in slot s
SlotUntouched(s) ==
    /\ pc'[s] = pc[s] /\ request'[s] = request[s] /\ body'[s] = body[s]
    /\ aiRequest'[s] = aiRequest[s] /\ calls'[s] = calls[s]
    /\ results'[s] = results[s] /\ content'[s] = content[s]
    /\ meta'[s] = meta[s] /\ idx'[s] = idx[s] /\ queue'[s] = queue[s]
    /\ closed'[s] = closed[s] /\ response'[s] = response[s]

\* the request in slot r has ended with the response, and the frames, it
\* gets when it is handled alone
EndsAsAlone(r) ==
    pc[r] = "done" =>
        /\ response[r] = AloneResponse(request[r], env, results[r], meta[r])
        /\ queue[r] = IF response[r].kind = "stream"
                      THEN AloneFrames(body[r], content[r], meta[r])
                      ELSE <<>>

\* C17: whatever the interleaving of the requests, no step changes the model
\* table or the configuration constants; a step of one request changes
\* nothing of any other request; the body of a request, once parsed, is the
\* one the request came with and never changes; and every request ends with
\* the response it gets when it is handled alone with the same backend
\* outcomes.
C17_Independent ==
    /\ [](globals = Globals)
    /\ [](\A r \in Reqs : EndsAsAlone(r))
    /\ [](\A r \in Reqs : body[r] # Undefined => body[r] = request[r].body)
    /\ [][\E r \in Reqs : \A s \in Reqs \ {r} : SlotUntouched(s)]_vars
    /\ [][\A r \in Reqs : body[r] # Undefined => body'[r] = body[r]]_vars

\* two requests are in flight at once: the stream of the first is half way,
\* the second is suspended at its backend call
C17_Witness ==
    \E r, s \in Reqs :
        /\ r # s
        /\ pc[r] = "loop" /\ queue[r] # <<>>
        /\ pc[s] = "run1" /\ Structured(s)

----------------------------------------------------------------------------
(* Vocabulary of the claims on the order of the checks.                    *)

\* the request carries a Bearer key that is one of the comma-separated
\* entries of the configured key list
KeyAccepted(req, e) ==
    /\ "Authorization" \in DOMAIN req.headers
    /\ Len(req.headers.Authorization) >= Len(Bearer)
    /\ SubSeq(req.headers.Authorization, 1, Len(Bearer)) = Bearer
    /\ e.VALID_API_KEYS.type = "string"
    /\ e.VALID_API_KEYS.val # <<>>
    /\ LET key == SubSeq(req.headers.Authorization, Len(Bearer) + 1,
                         Len(req.headers.Authorization))
       IN  /\ \A k \in 1..Len(key) : key[k] # ","
           /\ Includes(<<",">> \o e.VALID_API_KEYS.val \o <<",">>,
                       <<",">> \o key \o <<",">>)

\* one of the two public GET routes
PublicRoute(req) ==
    req.method = "GET" /\ req.path \in {"/health", "/v1/models"}

\* the response of slot r is the error with the status and the code
ErrorIs(r, status, code) ==
    /\ IsErrorResponse(response[r])
    /\ response[r].status = status
    /\ response[r].body.error.code = code

\* the body names a model that is no key of the table
UnknownModel(b) ==
    /\ Get(b, "model").type = "string"
    /\ Get(b, "model").val # <<>>
    /\ Get(b, "model").val \notin {DeepseekR1, GptOss120b, GptOss20b, Llama4Scout,
                                   Qwen25Coder, Gemma3}

----------------------------------------------------------------------------
(* C19 *)

\* C19: for a request that is no OPTIONS and goes to none of the public GET
\* routes, the first failing check of authentication (401), route (404),
\* declared size (413), JSON parsing (500), messages (400 invalid_parameter),
\* model (400 model_not_found) and backend call (500) decides the response,
\* and the backend is called only when all the checks before it passed.
\* (A body that is the JSON value null may be answered 400 or 500.)
C19_CheckOrder ==
    \A r \in Reqs :
        (pc[r] = "done" /\ request[r].method # "OPTIONS" /\ ~PublicRoute(request[r])) =>
            LET req == request[r]
            IN  IF ~KeyAccepted(req, env)
                    THEN ErrorIs(r, 401, "invalid_api_key") /\ calls[r] = <<>>
                ELSE IF ~IsChatRequest(req)
                    THEN ErrorIs(r, 404, "not_found") /\ calls[r] = <<>>
                ELSE IF ~DeclaredSizeOk(req)
                    THEN ErrorIs(r, 413, "payload_too_large") /\ calls[r] = <<>>
                ELSE IF req.body.type = "malformed"
                    THEN ErrorIs(r, 500, "internal_error") /\ calls[r] = <<>>
                ELSE IF req.body.type # "object"
                    THEN response[r].status \in {400, 500} /\ calls[r] = <<>>
                ELSE IF BadMessages(req.body)
                    THEN ErrorIs(r, 400, "invalid_parameter") /\ calls[r] = <<>>
                ELSE IF UnknownModel(req.body)
                    THEN ErrorIs(r, 400, "model_not_found") /\ calls[r] = <<>>
                ELSE /\ calls[r] # <<>>
                     /\ BackendFailed(r) => ErrorIs(r, 500, "internal_error")

----------------------------------------------------------------------------
(* C20 *)

\* C20: the backend is called only for requests whose Bearer key is in the
\* configured key list; a chat-completion request without such a key is
\* answered 401 with no backend call; GET /health and GET /v1/models are
\* answered 200 and OPTIONS 204, with or without a key, and without a
\* backend call.
C20_KeyBeforeBackend ==
    \A r \in Reqs :
        /\ calls[r] # <<>> => KeyAccepted(request[r], env) /\ IsChatRequest(request[r])
        /\ (pc[r] \notin {"idle", "unused"} /\ IsChatRequest(request[r])
                /\ ~KeyAccepted(request[r], env)) =>
              /\ pc[r] = "done"
              /\ ErrorIs(r, 401, "invalid_api_key")
              /\ calls[r] = <<>>
        /\ (pc[r] = "done" /\ PublicRoute(request[r])) =>
              /\ response[r].status = 200 /\ ~IsErrorResponse(response[r])
              /\ calls[r] = <<>>
        /\ (pc[r] = "done" /\ request[r].method = "OPTIONS") =>
              response[r].status = 204 /\ calls[r] = <<>>

\* with no key list configured, a chat-completion request that carries a
\* Bearer key has been answered 401 without a backend call
C20_Witness ==
    \E r \in Reqs :
        /\ pc[r] = "done" /\ IsChatRequest(request[r])
        /\ env.VALID_API_KEYS = Undefined
        /\ request[r].body.type = "object" /\ ~BadMessages(request[r].body)
        /\ "Authorization" \in DOMAIN request[r].headers
        /\ StartsWith(request[r].headers.Authorization, Bearer)
        /\ response[r].status = 401
        /\ calls[r] = <<>>

====
